---- MODULE Spec2Model ----
(***************************************************************************)
(* Pike: HTTP caching reverse proxy.                                       *)
(*                                                                         *)
(* The model follows server/server.go: every request is served by one      *)
(* invocation of handler, run concurrently with the others.  The handler   *)
(* talks to the request-status registry and the response store of the      *)
(* cache package (GetRequestStatus, HitForPass, Cacheable,                 *)
(* SaveResponseData, GetResponse).  The cache package itself is not part   *)
(* of the sources at hand: its operations are modelled after sections 4.2  *)
(* and 4.3 of the specification.                                           *)
(***************************************************************************)
EXTENDS Integers, Sequences, FiniteSets, TLC

\* ------------------------------------------------------------------ bounds

\* Number of handler goroutines that may run concurrently.
NumHandlers == 2
\* Total number of requests accepted by the server in one behaviour.
MaxRequests == 3
\* Largest cache age (seconds) an upstream response may declare.
MaxAge == 1

\* Cache ages the upstream responses declare: not cacheable, and cacheable
\* for the longest time.  The handler only tells 0 from the rest.
CacheAges == {0, MaxAge}

Handlers == 1..NumHandlers

\* ------------------------------------------------------------ vocabulary

\* vars.Pass, vars.Fetching, vars.HitForPass, vars.Cacheable
Pass == "Pass"
Fetching == "Fetching"
HitForPass == "HitForPass"
Cacheable == "Cacheable"

None == "none"

\* Requests the clients send: a cacheable GET, the same URI by POST,
\* a URI matched by a pass rule, and a host no director serves.
Requests ==
    { [method |-> "GET",  host |-> "h1", uri |-> "/a"],
      [method |-> "POST", host |-> "h1", uri |-> "/a"],
      [method |-> "GET",  host |-> "h1", uri |-> "/p"],
      [method |-> "GET",  host |-> "h2", uri |-> "/a"] }

NoRequest == [method |-> None, host |-> None, uri |-> None]

\* director.Director: hosts and path prefixes it serves, its pass rules and
\* its upstream.
DirectorList ==
    << [name |-> "d1", hosts |-> {"h1"}, prefixes |-> {"/a", "/p"},
        passes |-> {"/p"}, upstream |-> "u1"],
       [name |-> "d2", hosts |-> {"h1"}, prefixes |-> {"/a"},
        passes |-> {}, upstream |-> "u2"] >>

NoDirector == [name |-> None, hosts |-> {}, prefixes |-> {},
               passes |-> {}, upstream |-> None]

\* Director.Match(host, uri)
Match(d, host, uri) == host \in d.hosts /\ uri \in d.prefixes

\* Variant of KeepFound: every matching director replaces the one found.
TakeEveryMatch(found, d, host, uri) ==
    IF Match(d, host, uri) THEN d ELSE found

\* The loop body of getDirector: d is taken only while nothing is found.
KeepFound(found, d, host, uri) ==
    IF found = NoDirector /\ Match(d, host, uri) THEN d ELSE found

\* getDirector: the loop keeps the first director that matches.
RECURSIVE getDirectorFrom(_, _, _, _, _)
getDirectorFrom(host, uri, directorList, i, found) ==
    IF i > Len(directorList) THEN found
    ELSE getDirectorFrom(host, uri, directorList, i + 1,
            KeepFound(found, directorList[i], host, uri))

getDirector(host, uri, directorList) ==
    getDirectorFrom(host, uri, directorList, 1, NoDirector)

\* util.Pass: methods other than GET and HEAD, and pass-rule matches.
UtilPass(r, passes) == r.method \notin {"GET", "HEAD"} \/ r.uri \in passes

\* util.GenRequestKey
GenRequestKey(r) == <<r.method, r.host, r.uri>>

NoKey == <<>>

Keys == { GenRequestKey(r) : r \in Requests }

\* ------------------------------------------------------------------ state

VARIABLES
    ctx,        \* per handler: position and locals of the invocation
    chan,       \* per handler: the status delivered on its waiter channel
    registry,   \* cache package: key -> [state, waiters]
    store,      \* cache package: key -> saved cache.ResponseData
    started,    \* number of requests accepted so far
    concurrency,\* performance package: requests inside the handler
    lru,        \* cache.LRUCache under test
    dsel,       \* getDirector under test: its arguments and result
    comp,       \* the handler's compression step under test
    mw,         \* the CacheFetcher middleware under test
    conf        \* the admin handlers under test: the stored configuration

vars == <<ctx, chan, registry, store, started, concurrency,
          lru, dsel, comp, mw, conf>>

\* The components that the request handler does not touch.
others == <<lru, dsel, comp, mw, conf>>

\* The request handler's part of the state.
serverVars == <<ctx, chan, registry, store, started, concurrency>>

NoData == [TTL |-> -1]

IdleCtx ==
    [ pc       |-> "idle",
      req      |-> NoRequest,
      isPass   |-> FALSE,
      key      |-> NoKey,
      status   |-> None,      \* status
      c        |-> FALSE,     \* c != nil
      received |-> FALSE,     \* status = <-c has happened
      err      |-> FALSE,     \* doProxy returned an error
      cacheAge |-> 0,
      saved    |-> None,      \* result of SaveResponseData: none, ok, err
      resp     |-> None,      \* what the client got: none, error, data
      respTTL  |-> -1,        \* TTL of the ResponseData sent to the client
      pubs     |-> <<>>,      \* statuses this invocation published
      calls    |-> 0,         \* doProxy calls of this invocation
      lookups  |-> 0 ]        \* GetResponse calls of this invocation

\* A registry entry; fetcher records the handler elected for the fetch in
\* progress (0 when there is none).
NoEntry == [state |-> None, waiters |-> <<>>, fetcher |-> 0]

\* The components under test on their own, at rest.
OthersIdle ==
    /\ lru = None
    /\ dsel = None
    /\ comp = None
    /\ mw = None
    /\ conf = None

\* The server after Start, before the first request.
ServerInit ==
    /\ ctx = [h \in Handlers |-> IdleCtx]
    /\ chan = [h \in Handlers |-> None]
    /\ registry = [k \in Keys |-> NoEntry]
    /\ store = [k \in Keys |-> NoData]
    /\ started = 0
    /\ concurrency = 0

Init == ServerInit /\ OthersIdle

Range(s) == { s[i] : i \in 1..Len(s) }


\* ------------------------------------------------- cache package (registry)

\* Delivery of status st to every waiter queued on key k.
Deliver(k, st) ==
    [h \in Handlers |-> IF h \in Range(registry[k].waiters) THEN st ELSE chan[h]]

\* The common part of cache.HitForPass and cache.Cacheable: the entry takes
\* the named state and the waiter queue is drained.
Publish(k, st) ==
    /\ registry' = [registry EXCEPT ![k] = [state |-> st, waiters |-> <<>>, fetcher |-> 0]]
    /\ chan' = Deliver(k, st)

\* cache.HitForPass(key, ttl)
CacheHitForPass(k) == Publish(k, HitForPass)

\* cache.Cacheable(key, ttl)
CacheCacheable(k) == Publish(k, Cacheable)

\* The status cache.GetRequestStatus returns for an entry.
StatusOf(e) == IF e.state = None THEN Fetching ELSE e.state

\* Whether cache.GetRequestStatus returns a waiter channel.
HasWaiter(e) == e.state = Fetching

\* The entry cache.GetRequestStatus leaves behind for caller h.
EntryAfterGet(e, h) ==
    IF e.state = None THEN [state |-> Fetching, waiters |-> <<>>, fetcher |-> h]
    ELSE IF e.state = Fetching THEN [e EXCEPT !.waiters = Append(@, h)]
    ELSE e

\* -------------------------------------------------- decisions of handler

\* Variant: the missing director is not noticed.
DirectorNeverUnavailable(found) == FALSE

\* if found == nil { errorHandler(vars.ErrDirectorUnavailable); return }
DirectorUnavailable(found) == found = NoDirector

\* performance.IncreaseConcurrency()
IncreaseConcurrency(n) == n + 1

\* performance.DecreaseConcurrency()
DecreaseConcurrency(n) == n - 1

\* Variant: the decrement is a plain call after handler(...), which a panic
\* skips.
DecreaseAfterReturn(panicked) == ~panicked

\* defer performance.DecreaseConcurrency(): runs however the handler leaves.
DeferredDecrease(panicked) == TRUE

\* Variant: the status is looked up for passed requests too.
AlwaysGetStatus(isPass) == TRUE

\* if !isPass { ... cache.GetRequestStatus(key) ... }
ShouldGetStatus(isPass) == ~isPass

\* Variant: the channel returned by GetRequestStatus is ignored.
NeverWait(hasChan) == FALSE

\* Variant: the receive is not guarded by c != nil.
AlwaysWait(hasChan) == TRUE

\* if c != nil { status = <-c }
ShouldWait(hasChan) == hasChan

\* switch status: the arm the handler takes.
SwitchPc(status) == IF status = Cacheable THEN "getResponse" ELSE "proxy"

\* Variant: a failed fetch publishes nothing.
NeverPublishOnError(status) == FALSE

\* case vars.Fetching, vars.HitForPass: if err != nil { cache.HitForPass(...) }
PublishOnError(status) == status \in {Fetching, HitForPass}

\* Variant: the comparison is strict.
NotCacheableStrict(cacheAge) == cacheAge < 0

\* if cacheAge <= 0
NotCacheable(cacheAge) == cacheAge <= 0

\* Variant: an uncacheable response is never marked.
NeverMarkHitForPass(status) == FALSE

\* Variant: an uncacheable response is marked whatever the status was.
AlwaysMarkHitForPass(status) == TRUE

\* if status != vars.HitForPass { cache.HitForPass(...) }
ShouldMarkHitForPass(status) == status # HitForPass

\* Variant: the publication is made without saving first.
PublishWithoutSave == "publish"

\* cacheAge > 0: cache.SaveResponseData comes first, the publication after it.
AfterRespondPc == "save"

\* Variant: the error of SaveResponseData is ignored.
AlwaysCacheableAfterSave(saveErr) == Cacheable

\* if err != nil { cache.HitForPass } else { cache.Cacheable }
StatusAfterSave(saveErr) == IF saveErr THEN HitForPass ELSE Cacheable

\* Variant: a miss falls through to the fetch path.
RetryAfterMiss == "proxy"

\* case vars.Cacheable: if err != nil { errorHandler(err); return }
AfterMissPc == "done"

\* ------------------------------------------------------- handler actions

\* The deferred decrement of Start's Handler, run when handler h returns.
Leave(h) ==
    concurrency' = IF ctx'[h].pc = "done" /\ DeferredDecrease(FALSE)
                   THEN DecreaseConcurrency(concurrency) ELSE concurrency

\* Start's Handler and the head of handler: director lookup, pass rules.
\* Idle workers are interchangeable: the lowest one takes the request.
Begin(h, r) ==
    /\ ctx[h].pc \in {"idle", "done"}
    /\ \A j \in 1..(h - 1) : ctx[j].pc # "idle"
    /\ started < MaxRequests
    /\ started' = started + 1
    /\ LET found == getDirector(r.host, r.uri, DirectorList)
           isPass == UtilPass(r, found.passes)
       IN  ctx' = [ctx EXCEPT ![h] =
                IF DirectorUnavailable(found)
                THEN [IdleCtx EXCEPT !.pc = "done", !.req = r, !.resp = "error"]
                ELSE IF ShouldGetStatus(isPass)
                THEN [IdleCtx EXCEPT !.pc = "getStatus", !.req = r,
                                     !.isPass = isPass, !.status = Pass,
                                     !.key = GenRequestKey(r)]
                ELSE [IdleCtx EXCEPT !.pc = "proxy", !.req = r,
                                     !.isPass = isPass, !.status = Pass]]
    /\ concurrency' = IF ctx'[h].pc = "done" /\ DeferredDecrease(FALSE)
                      THEN DecreaseConcurrency(IncreaseConcurrency(concurrency))
                      ELSE IncreaseConcurrency(concurrency)
    /\ UNCHANGED <<chan, registry, store>>
    /\ UNCHANGED others

\* s, c := cache.GetRequestStatus(key); status = s
GetRequestStatus(h) ==
    /\ ctx[h].pc = "getStatus"
    /\ LET k == ctx[h].key
           e == registry[k]
           s == StatusOf(e)
           hasChan == HasWaiter(e)
       IN  /\ registry' = [registry EXCEPT ![k] = EntryAfterGet(e, h)]
           /\ ctx' = [ctx EXCEPT ![h].status = s,
                                 ![h].c = hasChan,
                                 ![h].pc = IF ShouldWait(hasChan) THEN "wait"
                                           ELSE SwitchPc(s)]
    /\ UNCHANGED <<chan, store, started>>
    /\ Leave(h)
    /\ UNCHANGED others

\* status = <-c
Receive(h) ==
    /\ ctx[h].pc = "wait"
    /\ chan[h] # None
    /\ ctx' = [ctx EXCEPT ![h].status = chan[h],
                          ![h].received = TRUE,
                          ![h].pc = SwitchPc(chan[h])]
    /\ chan' = [chan EXCEPT ![h] = None]
    /\ UNCHANGED <<registry, store, started>>
    /\ Leave(h)
    /\ UNCHANGED others

\* doProxy(ctx, us): the request leaves for the upstream.
DoProxyCall(h) ==
    /\ ctx[h].pc = "proxy"
    /\ ctx' = [ctx EXCEPT ![h].calls = @ + 1, ![h].pc = "upstream"]
    /\ UNCHANGED <<chan, registry, store, started>>
    /\ Leave(h)
    /\ UNCHANGED others

\* case vars.Pass: doProxy returned.
ProxyPassReturn(h, err) ==
    /\ ctx[h].pc = "upstream"
    /\ ctx[h].status = Pass
    /\ ctx' = [ctx EXCEPT ![h].err = err,
                          ![h].resp = IF err THEN "error" ELSE "data",
                          ![h].respTTL = IF err THEN -1 ELSE 0,
                          ![h].pc = "done"]
    /\ UNCHANGED <<chan, registry, store, started>>
    /\ Leave(h)
    /\ UNCHANGED others

\* case vars.Fetching, vars.HitForPass: doProxy returned an error.
ProxyFetchError(h) ==
    /\ ctx[h].pc = "upstream"
    /\ ctx[h].status \in {Fetching, HitForPass}
    /\ IF PublishOnError(ctx[h].status)
       THEN /\ CacheHitForPass(ctx[h].key)
            /\ ctx' = [ctx EXCEPT ![h].err = TRUE, ![h].resp = "error",
                                  ![h].pubs = Append(@, HitForPass),
                                  ![h].pc = "done"]
       ELSE /\ ctx' = [ctx EXCEPT ![h].err = TRUE, ![h].resp = "error",
                                  ![h].pc = "done"]
            /\ UNCHANGED <<chan, registry>>
    /\ UNCHANGED <<store, started>>
    /\ Leave(h)
    /\ UNCHANGED others

\* case vars.Fetching, vars.HitForPass: doProxy returned a response with
\* cache age cacheAge; the response is sent to the client, and an uncacheable
\* one is marked hit-for-pass.
ProxyFetchReturn(h, cacheAge) ==
    /\ ctx[h].pc = "upstream"
    /\ ctx[h].status \in {Fetching, HitForPass}
    /\ IF NotCacheable(cacheAge)
       THEN IF ShouldMarkHitForPass(ctx[h].status)
            THEN /\ CacheHitForPass(ctx[h].key)
                 /\ ctx' = [ctx EXCEPT ![h].cacheAge = cacheAge,
                                       ![h].resp = "data",
                                       ![h].respTTL = cacheAge,
                                       ![h].pubs = Append(@, HitForPass),
                                       ![h].pc = "done"]
            ELSE /\ ctx' = [ctx EXCEPT ![h].cacheAge = cacheAge,
                                       ![h].resp = "data",
                                       ![h].respTTL = cacheAge,
                                       ![h].pc = "done"]
                 /\ UNCHANGED <<chan, registry>>
       ELSE /\ ctx' = [ctx EXCEPT ![h].cacheAge = cacheAge,
                                  ![h].resp = "data",
                                  ![h].respTTL = cacheAge,
                                  ![h].pc = AfterRespondPc]
            /\ UNCHANGED <<chan, registry>>
    /\ UNCHANGED <<store, started>>
    /\ Leave(h)
    /\ UNCHANGED others

\* err = cache.SaveResponseData(key, respData)
SaveResponseData(h, ok) ==
    /\ ctx[h].pc = "save"
    /\ store' = IF ok
                THEN [store EXCEPT ![ctx[h].key] = [TTL |-> ctx[h].cacheAge]]
                ELSE store
    /\ ctx' = [ctx EXCEPT ![h].saved = IF ok THEN "ok" ELSE "err",
                          ![h].pc = "publish"]
    /\ UNCHANGED <<chan, registry, started>>
    /\ Leave(h)
    /\ UNCHANGED others

\* cache.HitForPass or cache.Cacheable after the save.
PublishAfterSave(h) ==
    /\ ctx[h].pc = "publish"
    /\ LET st == StatusAfterSave(ctx[h].saved = "err")
       IN  /\ Publish(ctx[h].key, st)
           /\ ctx' = [ctx EXCEPT ![h].pubs = Append(@, st), ![h].pc = "done"]
    /\ UNCHANGED <<store, started>>
    /\ Leave(h)
    /\ UNCHANGED others

\* case vars.Cacheable: respData, err := cache.GetResponse(key)
GetResponse(h) ==
    /\ ctx[h].pc = "getResponse"
    /\ LET data == store[ctx[h].key]
       IN  ctx' = [ctx EXCEPT ![h].lookups = @ + 1,
                     ![h].resp = IF data = NoData THEN "error" ELSE "data",
                     ![h].respTTL = data.TTL,
                     ![h].pc = IF data = NoData THEN AfterMissPc ELSE "done"]
    /\ UNCHANGED <<chan, registry, store, started>>
    /\ Leave(h)
    /\ UNCHANGED others

\* ------------------------------------------------ cache package (timers)

\* Expiry of a Cacheable or HitForPass entry: the entry goes, and with a
\* Cacheable entry its saved response.
Expire(k) ==
    /\ registry[k].state \in {HitForPass, Cacheable}
    /\ registry' = [registry EXCEPT ![k] = NoEntry]
    /\ store' = IF registry[k].state = Cacheable
                THEN [store EXCEPT ![k] = NoData] ELSE store
    /\ UNCHANGED <<ctx, chan, started, concurrency>>
    /\ UNCHANGED others

\* Watchdog: the registry publishes HitForPass for an entry whose fetcher has
\* not published in time.
Watchdog(k) ==
    /\ registry[k].state = Fetching
    /\ Publish(k, HitForPass)
    /\ UNCHANGED <<ctx, store, started, concurrency>>
    /\ UNCHANGED others

\* A panic inside handler: the goroutine unwinds, and only the deferred calls
\* of Start's Handler run.  A goroutine blocked on its waiter channel is not
\* running and cannot panic.
Panic(h) ==
    /\ ctx[h].pc \in {"getStatus", "proxy", "upstream", "save", "publish",
                      "getResponse"}
    /\ ctx' = [ctx EXCEPT ![h].pc = "done", ![h].resp = "panic"]
    /\ concurrency' = IF DeferredDecrease(TRUE)
                      THEN DecreaseConcurrency(concurrency) ELSE concurrency
    /\ UNCHANGED <<chan, registry, store, started>>
    /\ UNCHANGED others

\* ---------------------------------------------------------- specification

Next ==
    \/ \E h \in Handlers, r \in Requests : Begin(h, r)
    \/ \E h \in Handlers : GetRequestStatus(h)
    \/ \E h \in Handlers : Receive(h)
    \/ \E h \in Handlers : DoProxyCall(h)
    \/ \E h \in Handlers, err \in BOOLEAN : ProxyPassReturn(h, err)
    \/ \E h \in Handlers : ProxyFetchError(h)
    \/ \E h \in Handlers, cacheAge \in CacheAges : ProxyFetchReturn(h, cacheAge)
    \/ \E h \in Handlers, ok \in BOOLEAN : SaveResponseData(h, ok)
    \/ \E h \in Handlers : PublishAfterSave(h)
    \/ \E h \in Handlers : GetResponse(h)
    \/ \E k \in Keys : Expire(k)
    \/ \E k \in Keys : Watchdog(k)

Spec == Init /\ [][Next]_vars

\* The server with handlers that may panic.
PanicNext ==
    \/ Next
    \/ \E h \in Handlers : Panic(h)

PanicSpec == Init /\ [][PanicNext]_vars

TypeOK ==
    /\ started \in 0..MaxRequests
    /\ \A h \in Handlers :
        /\ ctx[h].pc \in {"idle", "getStatus", "wait", "proxy", "upstream",
                          "save", "publish", "getResponse", "done"}
        /\ chan[h] \in {None, HitForPass, Cacheable}
    /\ \A k \in Keys :
        registry[k].state \in {None, Fetching, HitForPass, Cacheable}


\* Goroutines are scheduled fairly and the registry's timers fire; the
\* upstream may take for ever to answer, and clients need not send requests.
HandlerStep(h) ==
    \/ GetRequestStatus(h)
    \/ Receive(h)
    \/ DoProxyCall(h)
    \/ \E ok \in BOOLEAN : SaveResponseData(h, ok)
    \/ PublishAfterSave(h)
    \/ GetResponse(h)

Fairness ==
    /\ \A h \in Handlers : WF_vars(HandlerStep(h))
    /\ \A k \in Keys : WF_vars(Watchdog(k))

LiveSpec == Init /\ [][Next]_vars /\ Fairness

\* ------------------------------------------------------------ properties

Done(h) == ctx[h].pc = "done"

\* GetRequestStatus returned Fetching with no waiter channel.
Elected(h) == ctx[h].key # NoKey /\ ctx[h].status = Fetching /\ ~ctx[h].c

\* GetRequestStatus returned a waiter channel.
Follower(h) == ctx[h].key # NoKey /\ ctx[h].c

\* The status the handler acts on is HitForPass (read from the registry
\* directly or received on the waiter channel).
SawHitForPass(h) == ctx[h].key # NoKey /\ ctx[h].status = HitForPass

\* The status the handler acts on is Cacheable.
SawCacheable(h) == ctx[h].key # NoKey /\ ctx[h].status = Cacheable

\* Callers of GetRequestStatus for the fetch in progress on key k.
Callers(k) == {registry[k].fetcher} \cup Range(registry[k].waiters)

\* C1: while the entry of a key is Fetching, the handler elected for it is
\* the only caller that has left for the upstream; every follower sits on
\* its waiter channel and has made no upstream call, and no follower makes
\* one before it has received a status.
C1_SingleFlight ==
    /\ \A h \in Handlers :
        (Follower(h) /\ ~ctx[h].received) =>
            (ctx[h].pc = "wait" /\ ctx[h].calls = 0)
    /\ \A k \in Keys :
        registry[k].state = Fetching =>
            /\ registry[k].fetcher \in Handlers
            /\ Elected(registry[k].fetcher)
            /\ ctx[registry[k].fetcher].key = k
            /\ ctx[registry[k].fetcher].pubs = <<>>
            /\ { h \in Callers(k) : ctx[h].pc # "wait" } = {registry[k].fetcher}
            /\ \A h \in Range(registry[k].waiters) : ctx[h].calls = 0

C1_Witness ==
    \E k \in Keys, h \in Handlers :
        /\ registry[k].state = Fetching
        /\ ctx[registry[k].fetcher].pc = "upstream"
        /\ ctx[registry[k].fetcher].calls = 1
        /\ h \in Range(registry[k].waiters)
        /\ ctx[h].pc = "wait"

\* The status an elected fetcher has to publish for its outcome.
ExpectedPublication(h) ==
    IF ~ctx[h].err /\ ctx[h].cacheAge > 0 /\ ctx[h].saved = "ok"
    THEN Cacheable ELSE HitForPass

\* C2: an elected fetcher publishes exactly once, whichever way it finishes:
\* Cacheable after a successful fetch with cache age > 0 and a successful
\* save, HitForPass otherwise; it has published nothing before it finishes.
C2_PublishesOnce ==
    \A h \in Handlers :
        Elected(h) =>
            IF Done(h) THEN ctx[h].pubs = <<ExpectedPublication(h)>>
            ELSE ctx[h].pubs = <<>>

C2_Witness ==
    \E h \in Handlers :
        Elected(h) /\ Done(h) /\ ctx[h].pubs = <<Cacheable>> /\ ctx[h].saved = "ok"

\* C3: every handler that reaches the receive on its waiter channel gets
\* past it.
C3_WaitersWoken ==
    \A h \in Handlers : (ctx[h].pc = "wait") ~> (ctx[h].pc # "wait")

\* A follower woken by the registry's fallback: it has received HitForPass
\* while the elected fetcher is still with the upstream.
C3_Witness ==
    \E f \in Handlers, h \in Handlers :
        /\ Elected(f) /\ ctx[f].pc = "upstream" /\ ctx[f].pubs = <<>>
        /\ Follower(h) /\ ctx[h].received /\ ctx[h].status = HitForPass
        /\ ctx[h].key = ctx[f].key

\* C4 as stated: a request that has observed Cacheable and looked the
\* response up has found it.
C4_Original ==
    \A h \in Handlers :
        (SawCacheable(h) /\ ctx[h].lookups > 0) => ctx[h].resp = "data"

\* C4: a handler publishes Cacheable only after its SaveResponseData for the
\* key has returned without error.
C4_SavedBeforeCacheable ==
    \A h \in Handlers :
        Cacheable \in Range(ctx[h].pubs) =>
            (ctx[h].saved = "ok" /\ ctx[h].cacheAge > 0 /\ ~ctx[h].err)

C4_Witness ==
    \E f \in Handlers, h \in Handlers :
        /\ ctx[f].pubs = <<Cacheable>> /\ ctx[f].saved = "ok"
        /\ SawCacheable(h) /\ Follower(h) /\ ctx[h].key = ctx[f].key
        /\ ctx[h].lookups = 1 /\ ctx[h].resp = "data"

\* C5 as stated: a request whose status is HitForPass publishes nothing and
\* saves nothing.
C5_Original ==
    \A h \in Handlers :
        SawHitForPass(h) => (ctx[h].pubs = <<>> /\ ctx[h].saved = None)

\* C5: a request whose status is HitForPass publishes nothing and saves
\* nothing when the upstream answers with cache age 0; on an upstream error
\* it publishes HitForPass; with cache age > 0 it saves the response and
\* publishes Cacheable, or HitForPass when the save fails.
C5_HitForPassOutcome ==
    \A h \in Handlers :
        (SawHitForPass(h) /\ Done(h)) =>
            /\ ctx[h].calls = 1
            /\ ctx[h].err => (ctx[h].pubs = <<HitForPass>> /\ ctx[h].saved = None)
            /\ (~ctx[h].err /\ ctx[h].cacheAge = 0) =>
                    (ctx[h].pubs = <<>> /\ ctx[h].saved = None)
            /\ (~ctx[h].err /\ ctx[h].cacheAge > 0) =>
                    \/ ctx[h].saved = "ok" /\ ctx[h].pubs = <<Cacheable>>
                    \/ ctx[h].saved = "err" /\ ctx[h].pubs = <<HitForPass>>

C5_Witness ==
    \E h \in Handlers :
        /\ SawHitForPass(h) /\ Done(h) /\ ~ctx[h].err /\ ctx[h].cacheAge = 0
        /\ ctx[h].resp = "data" /\ ctx[h].pubs = <<>>

\* The request is passed by the director that serves it.
IsPassed(r) ==
    LET found == getDirector(r.host, r.uri, DirectorList)
    IN  found # NoDirector /\ UtilPass(r, found.passes)

\* C6: a passed request never calls GetRequestStatus, publishes nothing,
\* saves nothing and reads nothing from the store, and the key of a request
\* that is always passed has no registry entry and no saved response.
C6_PassLeavesCacheAlone ==
    /\ \A h \in Handlers :
        (ctx[h].pc # "idle" /\ IsPassed(ctx[h].req)) =>
            /\ ctx[h].status = Pass /\ ctx[h].key = NoKey /\ ~ctx[h].c
            /\ ctx[h].pubs = <<>> /\ ctx[h].saved = None /\ ctx[h].lookups = 0
    /\ \A r \in Requests :
        IsPassed(r) =>
            (registry[GenRequestKey(r)] = NoEntry /\ store[GenRequestKey(r)] = NoData)

C6_Witness ==
    \E h \in Handlers, j \in Handlers :
        /\ IsPassed(ctx[h].req) /\ Done(h) /\ ctx[h].err /\ ctx[h].resp = "error"
        /\ IsPassed(ctx[j].req) /\ Done(j) /\ ~ctx[j].err /\ ctx[j].resp = "data"

\* C7: the step in which an elected fetcher learns that its upstream fetch
\* failed leaves the entry of its key HitForPass and the client with an
\* error response; and a request that finds the entry HitForPass goes on to
\* the upstream without a waiter channel.
C7_FetchErrorStep ==
    \A h \in Handlers :
        /\ (Elected(h) /\ ctx[h].pc = "upstream" /\ ctx'[h].err) =>
                /\ registry'[ctx[h].key].state = HitForPass
                /\ registry'[ctx[h].key].waiters = <<>>
                /\ ctx'[h].resp = "error"
                /\ ctx'[h].pc = "done"
        /\ (ctx[h].pc = "getStatus" /\ ctx'[h].pc # "getStatus"
              /\ registry[ctx[h].key].state = HitForPass) =>
                /\ ctx'[h].pc = "proxy"
                /\ ctx'[h].status = HitForPass
                /\ ~ctx'[h].c

C7_ErrorPublishesHitForPass == [][C7_FetchErrorStep]_vars

C7_Witness ==
    \E f \in Handlers, h \in Handlers :
        /\ Elected(f) /\ Done(f) /\ ctx[f].err /\ ctx[f].resp = "error"
        /\ registry[ctx[f].key].state = HitForPass
        /\ SawHitForPass(h) /\ ~ctx[h].c /\ ctx[h].key = ctx[f].key
        /\ ctx[h].calls = 1

\* C8: a fetcher whose save failed has served the fetched response to its
\* client and publishes HitForPass, never Cacheable.
C8_SaveFailure ==
    \A h \in Handlers :
        ctx[h].saved = "err" =>
            /\ ctx[h].resp = "data" /\ ctx[h].respTTL = ctx[h].cacheAge
            /\ Cacheable \notin Range(ctx[h].pubs)
            /\ Done(h) => ctx[h].pubs = <<HitForPass>>

C8_Witness ==
    \E h \in Handlers :
        /\ Elected(h) /\ Done(h) /\ ctx[h].saved = "err"
        /\ ctx[h].pubs = <<HitForPass>> /\ ctx[h].resp = "data"

\* C9 as stated: a request with status Cacheable is answered with an error
\* only after the fetch path has been retried or the store missed twice.
C9_Original ==
    \A h \in Handlers :
        (SawCacheable(h) /\ ctx[h].resp = "error") =>
            (ctx[h].calls > 0 \/ ctx[h].lookups >= 2)

\* C9: a request with status Cacheable looks the response up once; when the
\* lookup fails it is answered with an error at once: no second lookup, no
\* upstream call, no publication and no save.
C9_MissIsError ==
    \A h \in Handlers :
        SawCacheable(h) =>
            /\ ctx[h].lookups <= 1 /\ ctx[h].calls = 0
            /\ ctx[h].pubs = <<>> /\ ctx[h].saved = None
            /\ ctx[h].lookups = 1 => (Done(h) /\ ctx[h].resp \in {"error", "data"})
            /\ ctx[h].lookups = 0 => (ctx[h].pc = "getResponse" /\ ctx[h].resp = None)

C9_Witness ==
    \E h \in Handlers :
        /\ SawCacheable(h) /\ Done(h) /\ ctx[h].resp = "error"
        /\ ctx[h].lookups = 1 /\ ctx[h].calls = 0

\* C10: every response in the store has TTL > 0; a handler that called
\* SaveResponseData fetched a response with cache age > 0, and the response
\* of a passed request has TTL 0 and is not saved.
C10_NoZeroTTLStored ==
    /\ \A k \in Keys : store[k] # NoData => store[k].TTL > 0
    /\ \A h \in Handlers :
        /\ ctx[h].saved # None => (ctx[h].cacheAge > 0 /\ ctx[h].status # Pass)
        /\ (ctx[h].status = Pass /\ ctx[h].resp = "data") =>
                (ctx[h].respTTL = 0 /\ ctx[h].saved = None)

C10_Witness ==
    \E k \in Keys, h \in Handlers, j \in Handlers :
        /\ store[k] # NoData /\ store[k].TTL > 0
        /\ ctx[h].status = Pass /\ Done(h) /\ ctx[h].resp = "data"
        /\ ctx[j].resp = "data" /\ ctx[j].cacheAge = 0 /\ ctx[j].status = Fetching
        /\ Done(j)


\* Requests inside the request handler.
InHandler == { h \in Handlers : ctx[h].pc \notin {"idle", "done"} }

\* C13: the concurrency counter is the number of requests inside the
\* handler, whichever way the handlers leave (answer, error or panic); it is
\* never negative and is 0 when no request is being served.
C13_ConcurrencyCounter ==
    /\ concurrency = Cardinality(InHandler)
    /\ concurrency >= 0
    /\ (\A h \in Handlers : ctx[h].pc \in {"idle", "done"}) => concurrency = 0

C13_Witness ==
    \E h \in Handlers, j \in Handlers :
        /\ Done(h) /\ ctx[h].resp = "panic"
        /\ Done(j) /\ ctx[j].resp = "error"
        /\ started = MaxRequests
        /\ concurrency = 0


\* ================================================================ LRUCache
\* cache.LRUCache: MaxEntries, the recency list ll (front = most recently
\* used) and the index cache (key -> list element).  Both ll and cache are
\* nil after Clear; NewLRU leaves cache nil.

\* Largest MaxEntries given to NewLRU.
MaxCap == 2
\* Number of touches (Add, Get hit) followed in one behaviour.
MaxTouches == 4

LRUKeys == {"a", "b", "c"}
LRUValues == {1, 2}

NilList == [nil |-> TRUE, items |-> <<>>]
NilMap == [nil |-> TRUE, keys |-> {}]

\* list.New()
ListNew == [nil |-> FALSE, items |-> <<>>]

\* make(map[string]*list.Element)
MapNew == [nil |-> FALSE, keys |-> {}]

\* Index of the element of key in the list (0 when there is none).
IndexOf(items, key) ==
    IF \E i \in 1..Len(items) : items[i].key = key
    THEN CHOOSE i \in 1..Len(items) :
            /\ items[i].key = key
            /\ \A j \in 1..(i - 1) : items[j].key # key
    ELSE 0

\* The list without its i-th element.
Without(items, i) ==
    [j \in 1..(Len(items) - 1) |-> IF j < i THEN items[j] ELSE items[j + 1]]

\* list.PushFront
ListPushFront(items, e) == <<e>> \o items

\* list.MoveToFront
ListMoveToFront(items, key) ==
    LET i == IndexOf(items, key)
    IN  IF i = 0 THEN items ELSE <<items[i]>> \o Without(items, i)

\* list.Remove
ListRemove(items, key) ==
    LET i == IndexOf(items, key)
    IN  IF i = 0 THEN items ELSE Without(items, i)

\* A method call on the nil list: the caller panics.
Crash(c) == [c EXCEPT !.panicked = TRUE]

\* NewLRU(maxEntries)
NewLRU(maxEntries) ==
    [MaxEntries |-> maxEntries, ll |-> ListNew, cache |-> NilMap,
     panicked |-> FALSE]

\* Variant: the element leaves the list and stays in the index.
LRUremoveElementKeepIndex(c, key) ==
    IF c.ll.nil THEN Crash(c)
    ELSE [c EXCEPT !.ll.items = ListRemove(@, key)]

\* removeElement(e), e the element of key
LRUremoveElement(c, key) ==
    IF c.ll.nil THEN Crash(c)
    ELSE [c EXCEPT !.ll.items = ListRemove(@, key),
                   !.cache.keys = @ \ {key}]

\* RemoveOldest()
LRURemoveOldest(c) ==
    IF c.cache.nil THEN c
    ELSE IF c.ll.nil THEN Crash(c)
    ELSE IF c.ll.items = <<>> THEN c
    ELSE LRUremoveElement(c, c.ll.items[Len(c.ll.items)].key)

\* Variant: the cache is never found too long.
NeverOverCapacity(c) == FALSE

\* if c.MaxEntries != 0 && c.ll.Len() > c.MaxEntries
OverCapacity(c) == c.MaxEntries # 0 /\ Len(c.ll.items) > c.MaxEntries

\* Variant: the value of a present key is replaced where the element is.
LRUAddPresentInPlace(c, key, value) ==
    [c EXCEPT !.ll.items =
        [i \in 1..Len(@) |-> IF @[i].key = key
                             THEN [key |-> key, value |-> value] ELSE @[i]]]

\* Add, key present: c.ll.MoveToFront(ee); ee.Value.(*entry).value = value
LRUAddPresent(c, key, value) ==
    [c EXCEPT !.ll.items =
        <<[key |-> key, value |-> value]>> \o Tail(ListMoveToFront(@, key))]

\* Add(key, value)
LRUAdd(c, key, value) ==
    LET c1 == IF c.cache.nil
              THEN [c EXCEPT !.cache = MapNew, !.ll = ListNew]
              ELSE c
    IN  IF c1.ll.nil THEN Crash(c1)
        ELSE IF key \in c1.cache.keys THEN LRUAddPresent(c1, key, value)
        ELSE LET c2 == [c1 EXCEPT
                          !.ll.items = ListPushFront(@, [key |-> key, value |-> value]),
                          !.cache.keys = @ \cup {key}]
             IN  IF OverCapacity(c2) THEN LRURemoveOldest(c2) ELSE c2

\* Variant: a hit does not move the element.
LRUGetNoPromote(c, key) ==
    IF c.cache.nil THEN [c |-> c, value |-> 0, ok |-> FALSE]
    ELSE IF key \in c.cache.keys
    THEN [c |-> c, value |-> c.ll.items[IndexOf(c.ll.items, key)].value,
          ok |-> TRUE]
    ELSE [c |-> c, value |-> 0, ok |-> FALSE]

\* Get(key): the cache afterwards, the value and ok
LRUGet(c, key) ==
    IF c.cache.nil THEN [c |-> c, value |-> 0, ok |-> FALSE]
    ELSE IF key \in c.cache.keys
    THEN IF c.ll.nil THEN [c |-> Crash(c), value |-> 0, ok |-> FALSE]
         ELSE [c |-> [c EXCEPT !.ll.items = ListMoveToFront(@, key)],
               value |-> c.ll.items[IndexOf(c.ll.items, key)].value,
               ok |-> TRUE]
    ELSE [c |-> c, value |-> 0, ok |-> FALSE]

\* Remove(key)
LRURemove(c, key) ==
    IF c.cache.nil THEN c
    ELSE IF key \in c.cache.keys THEN LRUremoveElement(c, key)
    ELSE c

\* Len(): the cache afterwards and the length
LRULen(c) ==
    IF c.cache.nil THEN [c |-> c, n |-> 0]
    ELSE IF c.ll.nil THEN [c |-> Crash(c), n |-> 0]
    ELSE [c |-> c, n |-> Len(c.ll.items)]

\* Clear()
LRUClear(c) == [c EXCEPT !.ll = NilList, !.cache = NilMap]

\* ForEach(fn): the (key, value) pairs fn is called with
LRUForEach(c) ==
    { <<c.ll.items[i].key, c.ll.items[i].value>> :
        i \in { j \in 1..Len(c.ll.items) : c.ll.items[j].key \in c.cache.keys } }

\* Keys held by the recency list.
ListKeys(c) == { c.ll.items[i].key : i \in 1..Len(c.ll.items) }

NoOp == [op |-> None, key |-> None, value |-> 0, ok |-> FALSE, n |-> 0,
         removed |-> {}, seen |-> {}]

\* A cache under test: the cache c, the number of touches so far, the time of
\* the last touch of every key (0: never), whether Clear has been called, and
\* the last call with its results (for Add, ok tells that the key was present).
LRUStart(maxEntries) ==
    [c |-> NewLRU(maxEntries), clock |-> 0,
     touched |-> [k \in LRUKeys |-> 0], cleared |-> FALSE, last |-> NoOp]

LRUInit ==
    /\ \E n \in 0..MaxCap : lru = LRUStart(n)
    /\ dsel = None /\ comp = None /\ mw = None /\ conf = None
    /\ ServerInit

\* Keys a call removed from the index.
Removed(c, d) == c.cache.keys \ d.cache.keys

DoAdd(key, value) ==
    /\ lru.clock < MaxTouches
    /\ LET d == LRUAdd(lru.c, key, value)
       IN  lru' = [c |-> d, clock |-> lru.clock + 1,
                   touched |-> [lru.touched EXCEPT ![key] = lru.clock + 1],
                   cleared |-> lru.cleared,
                   last |-> [NoOp EXCEPT !.op = "Add", !.key = key,
                                         !.value = value,
                                         !.ok = key \in lru.c.cache.keys,
                                         !.removed = Removed(lru.c, d)]]
    /\ UNCHANGED <<serverVars, dsel, comp, mw, conf>>

DoGet(key) ==
    /\ lru.clock < MaxTouches
    /\ LET g == LRUGet(lru.c, key)
       IN  lru' = [c |-> g.c,
                   clock |-> IF g.ok THEN lru.clock + 1 ELSE lru.clock,
                   touched |-> IF g.ok
                               THEN [lru.touched EXCEPT ![key] = lru.clock + 1]
                               ELSE lru.touched,
                   cleared |-> lru.cleared,
                   last |-> [NoOp EXCEPT !.op = "Get", !.key = key,
                                         !.value = g.value, !.ok = g.ok,
                                         !.removed = Removed(lru.c, g.c)]]
    /\ UNCHANGED <<serverVars, dsel, comp, mw, conf>>

DoRemove(key) ==
    /\ LET d == LRURemove(lru.c, key)
       IN  lru' = [lru EXCEPT !.c = d,
                     !.last = [NoOp EXCEPT !.op = "Remove", !.key = key,
                                           !.removed = Removed(lru.c, d)]]
    /\ UNCHANGED <<serverVars, dsel, comp, mw, conf>>

DoRemoveOldest ==
    /\ LET d == LRURemoveOldest(lru.c)
       IN  lru' = [lru EXCEPT !.c = d,
                     !.last = [NoOp EXCEPT !.op = "RemoveOldest",
                                           !.removed = Removed(lru.c, d)]]
    /\ UNCHANGED <<serverVars, dsel, comp, mw, conf>>

DoLen ==
    /\ LET r == LRULen(lru.c)
       IN  lru' = [lru EXCEPT !.c = r.c,
                     !.last = [NoOp EXCEPT !.op = "Len", !.n = r.n]]
    /\ UNCHANGED <<serverVars, dsel, comp, mw, conf>>

DoClear ==
    /\ LET d == LRUClear(lru.c)
       IN  lru' = [lru EXCEPT !.c = d, !.cleared = TRUE,
                     !.last = [NoOp EXCEPT !.op = "Clear",
                                           !.removed = Removed(lru.c, d)]]
    /\ UNCHANGED <<serverVars, dsel, comp, mw, conf>>

DoForEach ==
    /\ lru' = [lru EXCEPT !.last = [NoOp EXCEPT !.op = "ForEach",
                                                !.seen = LRUForEach(lru.c)]]
    /\ UNCHANGED <<serverVars, dsel, comp, mw, conf>>

LRUNext ==
    \/ \E key \in LRUKeys, value \in LRUValues : DoAdd(key, value)
    \/ \E key \in LRUKeys : DoGet(key)
    \/ \E key \in LRUKeys : DoRemove(key)
    \/ DoRemoveOldest
    \/ DoLen
    \/ DoClear
    \/ DoForEach

LRUSpec == LRUInit /\ [][LRUNext]_vars


\* The key present in the cache whose last touch is the oldest.
IsOldest(l, k) ==
    /\ k \in l.c.cache.keys
    /\ \A j \in l.c.cache.keys : l.touched[k] <= l.touched[j]

\* C11: RemoveOldest, called directly or by Add on a cache that has grown
\* too long, removes exactly the entry whose last touch (Add of its key or
\* Get hit on it) is the oldest among the entries present.
C11_Step ==
    /\ (lru'.last.op = "RemoveOldest" /\ lru.c.cache.keys # {}) =>
            \E k \in LRUKeys :
                IsOldest(lru, k) /\ lru'.last.removed = {k}
    /\ (lru'.last.op = "Add" /\ lru'.last.removed # {}) =>
            \E k \in LRUKeys :
                /\ lru'.last.removed = {k}
                /\ k # lru'.last.key
                /\ IsOldest(lru, k)

C11_LRURecency == [][C11_Step]_vars

\* Capacity 2: Add(a), Add(b), Get(a), Add(c) has evicted b: a Get of b
\* misses while a and c are found.
C11_Witness ==
    /\ lru.c.MaxEntries = 2
    /\ lru.clock = 4
    /\ lru.touched = [k \in LRUKeys |->
                        IF k = "a" THEN 3 ELSE IF k = "b" THEN 2 ELSE 4]
    /\ lru.c.cache.keys = {"a", "c"}
    /\ lru.last.op = "Add" /\ lru.last.key = "c" /\ lru.last.removed = {"b"}
    /\ ~LRUGet(lru.c, "b").ok
    /\ LRUGet(lru.c, "a").ok /\ LRUGet(lru.c, "c").ok
    /\ ~lru.cleared

\* C12: with MaxEntries = n > 0 the length never exceeds n; an Add of a new
\* key into a full cache removes exactly one entry, the least recently used
\* one, every other Add removes nothing, and with MaxEntries = 0 no Add
\* removes anything.
C12_Step ==
    LET c == lru.c
        d == lru'.c
        full == c.MaxEntries > 0 /\ Len(c.ll.items) = c.MaxEntries
        new == lru'.last.key \notin c.cache.keys
    IN  /\ d.MaxEntries > 0 =>
                (LRULen(d).n <= d.MaxEntries /\ Len(d.ll.items) <= d.MaxEntries)
        /\ (lru'.last.op = "Add" /\ full /\ new) =>
                /\ Cardinality(lru'.last.removed) = 1
                /\ \A k \in lru'.last.removed : IsOldest(lru, k)
                /\ LRULen(d).n = d.MaxEntries
        /\ (lru'.last.op = "Add" /\ ~(full /\ new)) => lru'.last.removed = {}
        /\ (lru'.last.op = "Add" /\ c.MaxEntries = 0) =>
                (lru'.last.removed = {} /\ lru'.last.key \in d.cache.keys)

C12_CapacityBound == [][C12_Step]_vars

C12_Witness ==
    /\ lru.c.MaxEntries = 1
    /\ lru.last.op = "Add" /\ ~lru.last.ok
    /\ Cardinality(lru.last.removed) = 1
    /\ Len(lru.c.ll.items) = 1

\* C17: Add on a key that is present puts the key first with the new value,
\* keeps the length and the indexed keys, removes nothing, and leaves the
\* other entries in the order they had.
C17_Step ==
    LET c == lru.c
        d == lru'.c
        key == lru'.last.key
    IN  (lru'.last.op = "Add" /\ key \in c.cache.keys) =>
            /\ d.ll.items[1] = [key |-> key, value |-> lru'.last.value]
            /\ Len(d.ll.items) = Len(c.ll.items)
            /\ d.cache.keys = c.cache.keys
            /\ lru'.last.removed = {}
            /\ Tail(d.ll.items) = ListRemove(c.ll.items, key)

C17_AddPresent == [][C17_Step]_vars

\* A full cache of two; the key that was last is added again with a new value.
C17_Witness ==
    /\ lru.c.MaxEntries = 2 /\ Len(lru.c.ll.items) = 2
    /\ lru.last.op = "Add" /\ lru.last.ok /\ lru.last.removed = {}
    /\ lru.clock = 3
    /\ lru.touched[lru.c.ll.items[2].key] = 2
    /\ lru.c.ll.items[1].value = 2

\* C18: the index and the recency list hold the same keys, none twice; Len
\* is the number of indexed keys; no call panics on the nil list or map; a
\* cleared cache is empty, and the cache keeps to MaxEntries also after a
\* Clear.
C18_IndexMatchesList ==
    LET c == lru.c
    IN  /\ ~c.panicked
        /\ ~c.cache.nil => ~c.ll.nil
        /\ ListKeys(c) = c.cache.keys
        /\ Cardinality(ListKeys(c)) = Len(c.ll.items)
        /\ LRULen(c).n = Cardinality(c.cache.keys)
        /\ ~LRULen(c).c.panicked
        /\ { kv[1] : kv \in LRUForEach(c) } = c.cache.keys
        /\ lru.last.op = "Clear" => (c.cache.nil /\ c.ll.nil /\ LRULen(c).n = 0)
        /\ lru.last.op = "ForEach" => lru.last.seen = LRUForEach(c)
        /\ c.MaxEntries > 0 => Len(c.ll.items) <= c.MaxEntries

\* After a Clear the cache has been filled again and an Add has evicted.
C18_Witness ==
    /\ lru.cleared
    /\ lru.c.MaxEntries = 1
    /\ lru.last.op = "Add" /\ Cardinality(lru.last.removed) = 1
    /\ Len(lru.c.ll.items) = 1
    /\ ~lru.c.cache.nil


\* ------------------------------------------------------- director selection

MaxDirectors == 3

\* The directors a list is made of, and the hosts and URIs asked for.
DirectorPool ==
    { [name |-> "e1", hosts |-> {"h1"}, prefixes |-> {"/a", "/p"},
       passes |-> {}, upstream |-> "u1"],
      [name |-> "e2", hosts |-> {"h1", "h2"}, prefixes |-> {"/a"},
       passes |-> {}, upstream |-> "u2"],
      [name |-> "e3", hosts |-> {"h2"}, prefixes |-> {"/p"},
       passes |-> {}, upstream |-> "u3"] }

DirectorHosts == {"h1", "h2", "h3"}

DirectorURIs == {"/a", "/p"}

DirectorLists == UNION { [1..n -> DirectorPool] : n \in 0..MaxDirectors }

\* The list Start is given; nothing has been selected yet.
DirectorInit ==
    /\ ServerInit
    /\ lru = None /\ comp = None /\ mw = None /\ conf = None
    /\ \E l \in DirectorLists :
            dsel = [directorList |-> l, host |-> None, uri |-> None,
                    asked |-> FALSE, found |-> NoDirector]

\* handler line 92: found := getDirector(host, uri, directorList)
SelectDirector(host, uri) ==
    /\ dsel' = [dsel EXCEPT !.host = host, !.uri = uri, !.asked = TRUE,
                            !.found = getDirector(host, uri, dsel.directorList)]
    /\ UNCHANGED <<serverVars, lru, comp, mw, conf>>

DirectorNext ==
    \E host \in DirectorHosts, uri \in DirectorURIs : SelectDirector(host, uri)

DirectorSpec == DirectorInit /\ [][DirectorNext]_vars

\* Positions of the list whose director matches the selection asked for.
Matching ==
    { i \in 1..Len(dsel.directorList) :
            Match(dsel.directorList[i], dsel.host, dsel.uri) }

\* C14: the director selected is the first of the list, in list order, that
\* matches host and URI, and none when no director of the list matches.
C14_FirstMatchWins ==
    dsel.asked =>
        IF Matching = {} THEN dsel.found = NoDirector
        ELSE \E i \in Matching :
                /\ \A j \in Matching : i <= j
                /\ dsel.found = dsel.directorList[i]

\* Two different directors of the list match; the earlier one is selected.
C14_Witness ==
    /\ dsel.asked
    /\ \E i, j \in Matching :
            /\ i < j
            /\ dsel.directorList[i] # dsel.directorList[j]
            /\ \A k \in Matching : i <= k
            /\ dsel.found = dsel.directorList[i]


\* --------------------------------------------------- no director available

Unrouted(r) ==
    r # NoRequest /\ getDirector(r.host, r.uri, DirectorList) = NoDirector

\* C15: a request no director matches is answered with the director
\* unavailable error at once: no pass rule is evaluated and no status set, no
\* key is generated, the upstream is not called, nothing is published, saved
\* or looked up, and the step leaves registry, store and channels as they were.
C15_Step ==
    \A h \in Handlers :
        (ctx'[h] # ctx[h] /\ Unrouted(ctx'[h].req)) =>
            /\ ctx'[h] = [IdleCtx EXCEPT !.pc = "done", !.req = ctx'[h].req,
                                         !.resp = "error"]
            /\ registry' = registry
            /\ store' = store
            /\ chan' = chan

C15_NoDirectorOnlyError == [][C15_Step]_vars

\* An unrouted request has been answered while another request holds the
\* registry entry of its key as the fetcher.
C15_Witness ==
    \E h \in Handlers, j \in Handlers :
        /\ Unrouted(ctx[h].req) /\ Done(h) /\ ctx[h].resp = "error"
        /\ ctx[h].status = None /\ ctx[h].key = NoKey
        /\ ctx[j].pc = "upstream" /\ Elected(j)
        /\ registry[ctx[j].key].state = Fetching


\* --------------------------------------------- compression of fetched data

RawData == "raw"

GzipData == "gzip"

\* vars.CompressMinLength
CompressMinLength == 1024

ContentTypes == {"text/html", "application/json", "image/png", None}

\* util.ShouldCompress(contentType)
ShouldCompress(contentType) == contentType \in {"text/html", "application/json"}

BodyLengths ==
    {0, CompressMinLength - 1, CompressMinLength, CompressMinLength + 1,
     2 * CompressMinLength}

FetchedAges == {0, 1, 60}

\* len(body) > vars.CompressMinLength
LongEnough(n) == n > CompressMinLength

\* Lines 158-176: the ResponseData built from a fetched response. The body
\* is the upstream body or its gzip encoding; gzipErr is util.Gzip failing.
BuildRespData(contentType, cacheAge, n, gzipErr) ==
    LET shouldCompress == ShouldCompress(contentType)
        tryGzip == shouldCompress /\ cacheAge > 0 /\ LongEnough(n)
    IN  IF tryGzip /\ ~gzipErr
        THEN [Compress |-> GzipData, TTL |-> cacheAge, Body |-> "gzip(body)"]
        ELSE [Compress |-> RawData, TTL |-> cacheAge, Body |-> "body"]

NoRespData == [Compress |-> None, TTL |-> -1, Body |-> None]

\* A response has come back from the upstream.
CompressInit ==
    /\ ServerInit
    /\ lru = None /\ dsel = None /\ mw = None /\ conf = None
    /\ \E contentType \in ContentTypes, cacheAge \in FetchedAges,
          n \in BodyLengths, gzipErr \in BOOLEAN :
            comp = [contentType |-> contentType, cacheAge |-> cacheAge,
                    len |-> n, gzipErr |-> gzipErr, built |-> FALSE,
                    respData |-> NoRespData]

BuildResponse ==
    /\ ~comp.built
    /\ comp' = [comp EXCEPT !.built = TRUE,
                            !.respData = BuildRespData(comp.contentType,
                                            comp.cacheAge, comp.len,
                                            comp.gzipErr)]
    /\ UNCHANGED <<serverVars, lru, dsel, mw, conf>>

CompressNext == BuildResponse

CompressSpec == CompressInit /\ [][CompressNext]_vars

\* C16: a fetched response is held gzip-compressed exactly when its cache
\* age is positive, its content type is compressible, its body is at least
\* CompressMinLength long and gzip succeeds; otherwise it is held raw with
\* the body as fetched; the Compress flag tells which body is held.
C16_CompressedFromThreshold ==
    comp.built =>
        LET wanted == /\ comp.cacheAge > 0
                      /\ ShouldCompress(comp.contentType)
                      /\ comp.len >= CompressMinLength
                      /\ ~comp.gzipErr
        IN  /\ comp.respData.Compress = GzipData <=> wanted
            /\ comp.respData.Compress = RawData <=> ~wanted
            /\ comp.respData.Body = "gzip(body)" <=> wanted
            /\ comp.respData.Body = "body" <=> ~wanted

\* A cacheable, compressible body of exactly CompressMinLength bytes, with a
\* working gzip, is held raw.
C16_Witness ==
    /\ comp.built
    /\ comp.cacheAge > 0 /\ ShouldCompress(comp.contentType) /\ ~comp.gzipErr
    /\ comp.len = CompressMinLength
    /\ comp.respData.Compress = RawData /\ comp.respData.Body = "body"

\* What the code does: the same with the threshold length itself excluded.
C16_AboveThreshold ==
    comp.built =>
        LET wanted == /\ comp.cacheAge > 0
                      /\ ShouldCompress(comp.contentType)
                      /\ comp.len > CompressMinLength
                      /\ ~comp.gzipErr
        IN  /\ comp.respData.Compress = (IF wanted THEN GzipData ELSE RawData)
            /\ comp.respData.Body = (IF wanted THEN "gzip(body)" ELSE "body")
            /\ comp.respData.TTL = comp.cacheAge


\* ------------------------------------------------- CacheFetcher middleware

\* config.Skipper: nil, or a function answering true or false.
Skippers == {None, "skip", "noskip"}

\* What c.Get(vars.Status) may hold: nothing, a value that is no int, or a
\* request status.
StatusValues == {None, "notAnInt", Pass, Fetching, HitForPass, Cacheable}

\* What c.Get(vars.Identity) may hold: nothing, no []byte, or a key.
IdentityValues == {None, "notBytes", "id"}

\* if config.Skipper == nil { config.Skipper = middleware.DefaultSkipper }
Skipper(skipper) == IF skipper = None THEN FALSE ELSE skipper = "skip"

\* status, ok := c.Get(vars.Status).(int)
StatusIsInt(v) == v \in {Pass, Fetching, HitForPass, Cacheable}

\* identity, ok := c.Get(vars.Identity).([]byte)
IdentityIsBytes(v) == v = "id"

\* Variant of ReadsStore: only passed requests go by the store.
ReadsStoreUnlessPass(status) == status # Pass

\* if status != cache.Cacheable { return next(c) }
ReadsStore(status) == status = Cacheable

\* What a call has done and returned.
NoTrace == [next |-> FALSE, getResponse |-> FALSE, metric |-> FALSE,
            response |-> None, err |-> None]

\* next(c): the following handler runs and its error is returned.
CallNext(t, nextErr) ==
    [t EXCEPT !.next = TRUE, !.err = IF nextErr THEN "ErrNext" ELSE None]

\* The handler CacheFetcher returns, lines 25-56.
CacheFetcher(m) ==
    IF Skipper(m.skipper) THEN CallNext(NoTrace, m.nextErr)
    ELSE IF ~StatusIsInt(m.status)
    THEN [NoTrace EXCEPT !.err = "ErrRequestStatusNotSet"]
    ELSE IF ~ReadsStore(m.status) THEN CallNext(NoTrace, m.nextErr)
    ELSE IF ~IdentityIsBytes(m.identity)
    THEN [NoTrace EXCEPT !.err = "ErrIdentityStatusNotSet"]
    ELSE LET t == [NoTrace EXCEPT !.getResponse = TRUE, !.metric = m.timing]
         IN  IF m.getErr THEN [t EXCEPT !.err = "ErrGetResponse"]
             ELSE CallNext([t EXCEPT !.response = "resp"], m.nextErr)

\* A request context reaches the middleware.
FetcherInit ==
    /\ ServerInit
    /\ lru = None /\ dsel = None /\ comp = None /\ conf = None
    /\ \E skipper \in Skippers, status \in StatusValues,
          identity \in IdentityValues, timing \in BOOLEAN,
          getErr \in BOOLEAN, nextErr \in BOOLEAN :
            mw = [skipper |-> skipper, status |-> status,
                  identity |-> identity, timing |-> timing,
                  getErr |-> getErr, nextErr |-> nextErr,
                  called |-> FALSE, trace |-> NoTrace]

Fetch ==
    /\ ~mw.called
    /\ mw' = [mw EXCEPT !.called = TRUE, !.trace = CacheFetcher(mw)]
    /\ UNCHANGED <<serverVars, lru, dsel, comp, conf>>

FetcherNext == Fetch

FetcherSpec == FetcherInit /\ [][FetcherNext]_vars

\* C19: the middleware calls GetResponse only for a request whose status in
\* the context is Cacheable; with any other status, and when the skipper
\* applies, it calls next without reading the store or setting the response;
\* a missing status, a missing identity of a Cacheable request and a failed
\* GetResponse are returned as errors, with next not called and the response
\* not set.
C19_FetchOnlyCacheable ==
    mw.called =>
        LET t == mw.trace
            skipped == mw.skipper = "skip"
            hasStatus == StatusIsInt(mw.status)
            hasIdentity == mw.identity = "id"
            passedOn == t.next /\ ~t.getResponse /\ t.response = None
                        /\ t.err = (IF mw.nextErr THEN "ErrNext" ELSE None)
            refused == ~t.next /\ t.response = None
        IN  /\ t.getResponse => (mw.status = Cacheable /\ ~skipped)
            /\ skipped => passedOn
            /\ (~skipped /\ ~hasStatus) =>
                    (refused /\ ~t.getResponse /\ t.err = "ErrRequestStatusNotSet")
            /\ (~skipped /\ hasStatus /\ mw.status # Cacheable) => passedOn
            /\ (~skipped /\ mw.status = Cacheable /\ ~hasIdentity) =>
                    (refused /\ ~t.getResponse /\ t.err = "ErrIdentityStatusNotSet")
            /\ (~skipped /\ mw.status = Cacheable /\ hasIdentity /\ mw.getErr) =>
                    (refused /\ t.getResponse /\ t.err = "ErrGetResponse")
            /\ (~skipped /\ mw.status = Cacheable /\ hasIdentity /\ ~mw.getErr) =>
                    (t.next /\ t.getResponse /\ t.response = "resp")

\* GetResponse failed for a Cacheable request: the error is returned, next
\* is not called and no response is set.
C19_Witness ==
    /\ mw.called /\ mw.skipper = None
    /\ mw.status = Cacheable /\ mw.identity = "id" /\ mw.getErr
    /\ mw.trace.getResponse /\ ~mw.trace.next
    /\ mw.trace.response = None /\ mw.trace.err = "ErrGetResponse"


\* ------------------------------------------------------ admin: deleteConfig

CachesCategory == "caches"

CompressesCategory == "compresses"

LocationsCategory == "locations"

ServersCategory == "servers"

UpstreamsCategory == "upstreams"

AdminCategory == "admin"

\* The categories a request may name; the last one is no category at all.
Categories ==
    {CachesCategory, CompressesCategory, LocationsCategory, ServersCategory,
     UpstreamsCategory, AdminCategory, "bogus"}

\* Names of configurations; every category uses the same names.
ConfigNames == {"a", "b"}

\* The configurations a run may start from. Servers name a cache, a compress
\* and locations; locations name an upstream. Every name used is configured.
InitialConfigs ==
    { [caches |-> {"a", "b"}, compresses |-> {"a", "b"},
       upstreams |-> {"a", "b"},
       locations |-> { [name |-> "a", upstream |-> "a"],
                       [name |-> "b", upstream |-> "a"] },
       servers |-> { [name |-> "a", cache |-> "a", compress |-> "a",
                      locations |-> {"a"}],
                     [name |-> "b", cache |-> "a", compress |-> "b",
                      locations |-> {"a", "b"}] }],
      [caches |-> {"a", "b"}, compresses |-> {"a", "b"},
       upstreams |-> {"a", "b"},
       locations |-> { [name |-> "a", upstream |-> "b"],
                       [name |-> "b", upstream |-> "a"] },
       servers |-> { [name |-> "a", cache |-> "b", compress |-> "b",
                      locations |-> {"b"}] }],
      [caches |-> {"a"}, compresses |-> {"b"},
       upstreams |-> {"b"},
       locations |-> { [name |-> "b", upstream |-> "b"] },
       servers |-> { [name |-> "b", cache |-> "a", compress |-> "b",
                      locations |-> {"b"}] }] }

\* serverConfigs.Exists(category, name): some server uses the name.
ServersExists(servers, category, name) ==
    \E sv \in servers :
        \/ category = CachesCategory /\ sv.cache = name
        \/ category = CompressesCategory /\ sv.compress = name
        \/ category = LocationsCategory /\ name \in sv.locations

\* locations.ExistsUpstream(name): some location uses the upstream.
ExistsUpstream(locations, name) == \E l \in locations : l.upstream = name

\* iconfig.Delete(): the configuration of that category and name is removed.
ConfigDelete(st, category, name) ==
    IF category = CachesCategory
    THEN [st EXCEPT !.caches = @ \ {name}]
    ELSE IF category = CompressesCategory
    THEN [st EXCEPT !.compresses = @ \ {name}]
    ELSE IF category = UpstreamsCategory
    THEN [st EXCEPT !.upstreams = @ \ {name}]
    ELSE IF category = LocationsCategory
    THEN [st EXCEPT !.locations = { l \in @ : l.name # name }]
    ELSE IF category = ServersCategory
    THEN [st EXCEPT !.servers = { sv \in @ : sv.name # name }]
    ELSE st

\* The categories of the switch; any other is "not support".
DeleteSupported(category) ==
    category \in {CachesCategory, CompressesCategory, LocationsCategory,
                  ServersCategory, UpstreamsCategory}

\* Variant of CheckedByServer: only caches are looked up in the servers.
CheckedByServerCachesOnly(category) == category = CachesCategory

\* shouldBeCheckedByServer
CheckedByServer(category) ==
    category \in {CachesCategory, CompressesCategory, LocationsCategory}

\* shouldBeCheckedByLocation
CheckedByLocation(category) == category = UpstreamsCategory

\* deleteConfig: the store after the call and the error returned. getErr
\* says which of GetServers and GetLocations fails, deleteErr that Delete does.
deleteConfig(st, category, name, getErr, deleteErr) ==
    IF getErr = "servers" THEN [store |-> st, err |-> "ErrGetServers"]
    ELSE IF getErr = "locations" THEN [store |-> st, err |-> "ErrGetLocations"]
    ELSE IF ~DeleteSupported(category) THEN [store |-> st, err |-> "NotSupport"]
    ELSE IF CheckedByServer(category) /\ ServersExists(st.servers, category, name)
    THEN [store |-> st, err |-> "UsedByServer"]
    ELSE IF CheckedByLocation(category) /\ ExistsUpstream(st.locations, name)
    THEN [store |-> st, err |-> "UsedByLocation"]
    ELSE IF deleteErr THEN [store |-> st, err |-> "ErrDelete"]
    ELSE [store |-> ConfigDelete(st, category, name), err |-> None]

NoCall == [category |-> None, name |-> None, err |-> None]

AdminInit ==
    /\ ServerInit
    /\ lru = None /\ dsel = None /\ comp = None /\ mw = None
    /\ \E st \in InitialConfigs : conf = [store |-> st, last |-> NoCall]

\* DELETE /configs/:category/:name
DeleteConfig(category, name) ==
    \E getErr \in {None, "servers", "locations"}, deleteErr \in BOOLEAN :
        LET r == deleteConfig(conf.store, category, name, getErr, deleteErr)
        IN  /\ conf' = [store |-> r.store,
                        last |-> [category |-> category, name |-> name,
                                  err |-> r.err]]
            /\ UNCHANGED <<serverVars, lru, dsel, comp, mw>>

AdminNext ==
    \E category \in Categories, name \in ConfigNames :
        DeleteConfig(category, name)

AdminSpec == AdminInit /\ [][AdminNext]_vars

\* Every cache, compress and location a server names, and every upstream a
\* location names, is configured.
Resolved(st) ==
    /\ \A sv \in st.servers :
            /\ sv.cache \in st.caches
            /\ sv.compress \in st.compresses
            /\ \A n \in sv.locations : \E l \in st.locations : l.name = n
    /\ \A l \in st.locations : l.upstream \in st.upstreams

\* The configuration of that category and name is named by a server or by a
\* location.
Referenced(st, category, name) ==
    \/ category = CachesCategory /\ \E sv \in st.servers : sv.cache = name
    \/ category = CompressesCategory /\ \E sv \in st.servers : sv.compress = name
    \/ category = LocationsCategory /\ \E sv \in st.servers : name \in sv.locations
    \/ category = UpstreamsCategory /\ \E l \in st.locations : l.upstream = name

\* C20: a deleteConfig call for a cache, compress or location that a server
\* names, or for an upstream that a location names, returns an error and
\* leaves the stored configuration as it was; and after every call all names
\* used by the remaining servers and locations are still configured.
C20_Step ==
    /\ Resolved(conf'.store)
    /\ Referenced(conf.store, conf'.last.category, conf'.last.name) =>
            /\ conf'.store = conf.store
            /\ conf'.last.err \in {"UsedByServer", "UsedByLocation",
                                   "ErrGetServers", "ErrGetLocations"}
    /\ conf'.last.err # None => conf'.store = conf.store

C20_ReferencedNotDeleted == [][C20_Step]_vars

\* After both servers were deleted, and with them every use of cache b and
\* of the locations, a location is still refused its upstream's deletion.
C20_Witness ==
    /\ conf.store.servers = {}
    /\ conf.store.caches = {"a"}
    /\ conf.store.locations # {}
    /\ conf.last.category = UpstreamsCategory
    /\ conf.last.err = "UsedByLocation"
    /\ Referenced(conf.store, conf.last.category, conf.last.name)


\* ------------------------------------- admin: all three config operations

MaxCategoryList == 2

\* The categories asked of getConfigs: two it knows and one it does not.
ListCategories == {CachesCategory, AdminCategory, "bogus"}

\* strings.Split(c.Param("category"), ","): never empty.
CategoryLists == UNION { [1..n -> ListCategories] : n \in 1..MaxCategoryList }

\* The categories getConfigs and createOrUpdateConfig know.
ConfigSupported(category) ==
    category \in {CachesCategory, CompressesCategory, LocationsCategory,
                  ServersCategory, UpstreamsCategory, AdminCategory}

\* getConfigs, the loop from position i on: res holds the categories
\* fetched so far; failing is the category whose Get call fails.
RECURSIVE getConfigsFrom(_, _, _, _)
getConfigsFrom(arr, i, res, failing) ==
    IF i > Len(arr) THEN [body |-> res, err |-> None]
    ELSE IF ~ConfigSupported(arr[i]) THEN [body |-> None, err |-> "NotSupport"]
    ELSE IF arr[i] = failing THEN [body |-> None, err |-> "ErrGet"]
    ELSE getConfigsFrom(arr, i + 1, res \cup {arr[i]}, failing)

getConfigs(arr, failing) == getConfigsFrom(arr, 1, {}, failing)

\* The configuration a request body of that category and name describes.
ItemFor(category, name) ==
    IF category = LocationsCategory THEN [name |-> name, upstream |-> "a"]
    ELSE IF category = ServersCategory
    THEN [name |-> name, cache |-> "a", compress |-> "a", locations |-> {"a"}]
    ELSE name

\* iconfig.Save(): the configuration replaces the one of its name.
ConfigSave(st, category, name) ==
    IF category = CachesCategory
    THEN [st EXCEPT !.caches = @ \cup {name}]
    ELSE IF category = CompressesCategory
    THEN [st EXCEPT !.compresses = @ \cup {name}]
    ELSE IF category = UpstreamsCategory
    THEN [st EXCEPT !.upstreams = @ \cup {name}]
    ELSE IF category = LocationsCategory
    THEN [st EXCEPT !.locations =
            { l \in @ : l.name # name } \cup {ItemFor(category, name)}]
    ELSE IF category = ServersCategory
    THEN [st EXCEPT !.servers =
            { sv \in @ : sv.name # name } \cup {ItemFor(category, name)}]
    ELSE st

\* Variant of AfterDefault: the default case returns its error.
ReturnAfterDefault(category) == ~ConfigSupported(category)

\* The default case of createOrUpdateConfig sets err and goes on to
\* doValidate: the handler never returns there.
AfterDefault(category) == FALSE

\* createOrUpdateConfig. iconfig is nil for a category the switch does not
\* know. validateErr is doValidate returning an error, saveErr Save doing so;
\* Save called on the nil iconfig panics.
createOrUpdateConfig(st, admin, category, name, validateErr, saveErr) ==
    LET isNil == ~ConfigSupported(category)
        r == [store |-> st, admin |-> admin, err |-> None,
              validated |-> FALSE, saved |-> FALSE]
    IN  IF AfterDefault(category) THEN [r EXCEPT !.err = "NotSupport"]
        ELSE IF validateErr
        THEN [r EXCEPT !.err = "ErrValidate", !.validated = TRUE]
        ELSE IF isNil THEN [r EXCEPT !.err = "panic", !.validated = TRUE]
        ELSE IF saveErr THEN [r EXCEPT !.err = "ErrSave", !.validated = TRUE]
        ELSE [r EXCEPT !.validated = TRUE, !.saved = TRUE,
                       !.store = ConfigSave(st, category, name),
                       !.admin = IF category = AdminCategory THEN "set"
                                 ELSE admin]

\* The last request: whether it named a category its handler does not know,
\* whether a read of the stored configuration failed, and what it did.
NoOpCall ==
    [op |-> None, unsupported |-> FALSE, readFailed |-> FALSE, err |-> None,
     body |-> None, validated |-> FALSE, saved |-> FALSE, changed |-> FALSE]

ConfigInit ==
    /\ ServerInit
    /\ lru = None /\ dsel = None /\ comp = None /\ mw = None
    /\ \E st \in InitialConfigs :
            conf = [store |-> st, admin |-> None, last |-> NoOpCall]

\* GET /configs/:category
GetConfigsCall(arr, failing) ==
    LET r == getConfigs(arr, failing)
    IN  /\ conf' = [conf EXCEPT !.last =
                [NoOpCall EXCEPT !.op = "get",
                    !.unsupported = \E i \in 1..Len(arr) : ~ConfigSupported(arr[i]),
                    !.readFailed = r.err = "ErrGet",
                    !.err = r.err, !.body = r.body]]
        /\ UNCHANGED <<serverVars, lru, dsel, comp, mw>>

\* POST /configs/:category
CreateOrUpdateCall(category, name, validateErr, saveErr) ==
    LET r == createOrUpdateConfig(conf.store, conf.admin, category, name,
                                  validateErr, saveErr)
    IN  /\ conf' = [store |-> r.store, admin |-> r.admin,
                    last |-> [NoOpCall EXCEPT !.op = "create",
                        !.unsupported = ~ConfigSupported(category),
                        !.err = r.err, !.validated = r.validated,
                        !.saved = r.saved,
                        !.changed = r.store # conf.store \/ r.admin # conf.admin]]
        /\ UNCHANGED <<serverVars, lru, dsel, comp, mw>>

\* DELETE /configs/:category/:name
DeleteCall(category, name, getErr, deleteErr) ==
    LET r == deleteConfig(conf.store, category, name, getErr, deleteErr)
    IN  /\ conf' = [store |-> r.store, admin |-> conf.admin,
                    last |-> [NoOpCall EXCEPT !.op = "delete",
                        !.unsupported = ~DeleteSupported(category),
                        !.readFailed = getErr # None,
                        !.err = r.err,
                        !.changed = r.store # conf.store]]
        /\ UNCHANGED <<serverVars, lru, dsel, comp, mw>>

ConfigNext ==
    \/ \E arr \in CategoryLists, failing \in {None, CachesCategory} :
            GetConfigsCall(arr, failing)
    \/ \E category \in Categories, name \in ConfigNames,
          validateErr \in BOOLEAN, saveErr \in BOOLEAN :
            CreateOrUpdateCall(category, name, validateErr, saveErr)
    \/ \E category \in Categories, name \in ConfigNames,
          getErr \in {None, "locations"}, deleteErr \in BOOLEAN :
            DeleteCall(category, name, getErr, deleteErr)

ConfigSpec == ConfigInit /\ [][ConfigNext]_vars

\* C21: a request that names a category its operation does not know, and
\* whose reads of the stored configuration succeed, gets the "is not
\* support" error and changes nothing: getConfigs sets no body,
\* createOrUpdateConfig neither validates nor saves, deleteConfig deletes
\* nothing.
C21_UnsupportedRejected ==
    (conf.last.unsupported /\ ~conf.last.readFailed) =>
        /\ conf.last.err = "NotSupport"
        /\ ~conf.last.changed
        /\ conf.last.body = None
        /\ ~conf.last.validated
        /\ ~conf.last.saved

\* createOrUpdateConfig with an unknown category has called doValidate and
\* answers with another error than "is not support".
C21_Witness ==
    /\ conf.last.op = "create" /\ conf.last.unsupported
    /\ conf.last.validated
    /\ conf.last.err \in {"ErrValidate", "panic"}
    /\ ~conf.last.changed

\* What holds: getConfigs and deleteConfig behave as stated, and
\* createOrUpdateConfig with an unknown category saves and changes nothing,
\* but validates and never answers "is not support".
C21_ExceptCreate ==
    (conf.last.unsupported /\ ~conf.last.readFailed) =>
        /\ ~conf.last.changed /\ ~conf.last.saved /\ conf.last.body = None
        /\ conf.last.op \in {"get", "delete"} =>
                (conf.last.err = "NotSupport" /\ ~conf.last.validated)
        /\ conf.last.op = "create" =>
                (conf.last.validated /\ conf.last.err \in {"ErrValidate", "panic"})

====
